---- MODULE Spec2Model ----
(***************************************************************************)
(* The useSettings hook (src/app/lib/hooks/useSettings.tsx): process-wide  *)
(* nanostores, the browser cookie jar, one mounted instance of the hook    *)
(* with React's render / passive-effect cycle, and the asynchronous        *)
(* freshness check; and the send triggers of the BaseChat component        *)
(* (src/app/components/chat/BaseChat.tsx).                                 *)
(***************************************************************************)
EXTENDS Naturals, Sequences, FiniteSets, TLC

\* ------------------------------------------------------------------ bounds
MaxCalls == 2        \* setter calls over the whole behaviour
MaxMounts == 2       \* mounts of the hook over the whole behaviour
MaxPreset == 1       \* well-formed cookies in the jar when the page is first loaded
MaxPayload == 1      \* members of a persisted providers object
MaxFiles == 1        \* files attached to the message being written

\* ------------------------------------------------------- values and inputs
Undefined == "<undefined>"           \* JavaScript undefined / no such cookie
RunningCommit == "c1"                \* commit.commit of the running build
OldCommit == "c0"                    \* some other build's commit
DefaultPromptId == "default"

PROVIDER_LIST == <<"OpenAI", "Ollama">>
LOCAL_PROVIDERS == {"Ollama"}
GhostProvider == "Ghost"             \* a name no registry default carries
Urls == {"u1"}
FieldNames == {"enabled", "baseUrl"}

BoolCookieTexts == {Undefined, "true", "false", ""}
PromptCookieTexts == {Undefined, "p1"}
CommitCookieTexts == {Undefined, RunningCommit, OldCommit}

\* String(b) for a boolean b
String(b) == IF b THEN "true" ELSE "false"

\* ------------------------------------------------------ provider registry
\* A registry is the sequence of its entries in enumeration order; an entry
\* is a ProviderInfo together with the key it is stored under.
Settings(e, u) == [enabled |-> e, baseUrl |-> u]

initialProviderSettings ==
    [i \in 1..Len(PROVIDER_LIST) |->
        [key |-> PROVIDER_LIST[i], name |-> PROVIDER_LIST[i],
         settings |-> Settings(TRUE, Undefined)]]

Keys(reg) == {reg[i].key : i \in DOMAIN reg}
Has(reg, k) == k \in Keys(reg)
Get(reg, k) == reg[CHOOSE i \in DOMAIN reg : reg[i].key = k]

\* nanostores map.setKey: replaces the value under k, or adds k last
setKey(reg, k, v) ==
    IF Has(reg, k)
    THEN [i \in DOMAIN reg |-> IF reg[i].key = k THEN v ELSE reg[i]]
    ELSE Append(reg, v)

\* ------------------------------------------------------------------- JSON
\* variant: only the enabled flag written out
JsonFieldsOf_enabledOnly(s) == [f \in {"enabled"} |-> String(s.enabled)]

\* The text of a JSON object of provider settings: the members in order,
\* each a key and the fields its record writes out (tokens, as text); a
\* field that is undefined is not written.
JsonFieldsOf(s) ==
    [f \in {"enabled"} \cup (IF s.baseUrl # Undefined THEN {"baseUrl"} ELSE {}) |->
        IF f = "enabled" THEN String(s.enabled) ELSE s.baseUrl]

\* JSON.stringify of {name -> settings}
JSONstringify(reg) ==
    [text |-> "json",
     doc |-> [i \in DOMAIN reg |-> [key |-> reg[i].key, fields |-> JsonFieldsOf(reg[i].settings)]]]

NoProvidersCookie == [text |-> Undefined, doc |-> <<>>]
RawText(t) == [text |-> t, doc |-> <<>>]

\* JSON.parse followed by Object.keys: does the try block throw before the
\* first setKey?  ("{bad" is no JSON; "null" parses, Object.keys(null) throws)
ParseThrows(c) == c.text \in {"{bad", "null"}

\* ---------------------------------------------------------------- payloads
\* The records a persisted member can hold: each field present or not.
JsonRecords ==
    { f \in UNION {[D -> {"true", "false"} \cup Urls] : D \in SUBSET FieldNames} :
        /\ "enabled" \in DOMAIN f => f["enabled"] \in {"true", "false"}
        /\ "baseUrl" \in DOMAIN f => f["baseUrl"] \in Urls }

PayloadKeys == Keys(initialProviderSettings) \cup {GhostProvider}

\* JSON objects of at most MaxPayload members, no key twice
PayloadDocs ==
    { d \in UNION {[1..n -> [key : PayloadKeys, fields : JsonRecords]] : n \in 0..MaxPayload} :
        \A i, j \in DOMAIN d : i # j => d[i].key # d[j].key }

ProvidersCookieTexts ==
    {NoProvidersCookie, RawText(""), RawText("{bad"), RawText("null")}
        \cup {[text |-> "json", doc |-> d] : d \in PayloadDocs}

\* ------------------------------------------------------------------ state
VARIABLES
    providersStore,        \* providersStore (nanostores map), a registry
    isDebugMode,           \* the atoms of ~/lib/stores/settings
    isEventLogsEnabled,
    isLocalModelsEnabled,
    promptStore,
    latestBranchStore,
    cookies,               \* the js-cookie jar, but for the providers cookie
    providersCookie,       \* the providers cookie
    mounted,               \* is an instance of the hook mounted
    providers,             \* useStore(providersStore) as of the last render
    isLocalModel,          \* useStore(isLocalModelsEnabled) as of the last render
    activeProviders,       \* the activeProviders the last render returned
    activeQueued,          \* the value setActiveProviders was last given
    storeChanged,          \* providersStore was replaced since the last render
    pendingEffects,        \* passive effects of the last commit, not yet run
    inHandler,             \* an event handler has called a setter since the last render
    pendingChecks,         \* checkIsStableVersion fetches in flight
    calls,                 \* setter calls since the page was loaded
    mounts,                \* mounts so far
    last,                  \* the step taken last (history)
    userLatest,            \* what enableLatestBranch was last given, as text (history)
    isStreaming,           \* BaseChat props as of its last render
    chatStarted,
    input,
    uploadedFiles,         \* how many files the uploadedFiles prop holds
    callbacks,             \* which of the optional callback props are given
    recognition,           \* BaseChat state: is there a SpeechRecognition
    isListening,
    transcript,
    event                  \* the trigger handled last and what it called (history)

useSettings == <<providersStore, isDebugMode, isEventLogsEnabled, isLocalModelsEnabled,
                 promptStore, latestBranchStore, cookies, providersCookie, mounted,
                 providers, isLocalModel, activeProviders, activeQueued, storeChanged,
                 pendingEffects, inHandler, pendingChecks, calls, mounts, last, userLatest>>

chat == <<isStreaming, chatStarted, input, uploadedFiles, callbacks, recognition,
          isListening, transcript, event>>

vars == <<useSettings, chat>>

stores == <<providersStore, isDebugMode, isEventLogsEnabled, isLocalModelsEnabled,
            promptStore, latestBranchStore>>
hook == <<mounted, providers, isLocalModel, activeProviders, activeQueued,
          storeChanged, pendingEffects>>
\* what a step that is no setter call and no render leaves alone
counters == <<inHandler, calls, mounts>>

CookieKeys == {"isDebugEnabled", "isEventLogsEnabled", "isLocalModelsEnabled",
               "promptId", "isLatestBranch", "commitHash"}

\* how many cookies the jar holds, a providers cookie that is no JSON object
\* (which the first mount overwrites) not counted
Present(jar, pc) ==
    Cardinality({k \in CookieKeys : jar[k] # Undefined})
        + (IF pc.text = "json" THEN 1 ELSE 0)

\* one step of history: the operation, and what it was given or found
Step(op, b, name, cfg) == [op |-> op, b |-> b, name |-> name, cfg |-> cfg]
NoCfg == <<>>

\* what the atoms hold when ~/lib/stores/settings has been evaluated
defaults ==
    [isDebugMode |-> FALSE, isEventLogsEnabled |-> FALSE, isLocalModelsEnabled |-> TRUE,
     promptStore |-> DefaultPromptId, latestBranchStore |-> FALSE]

\* what a handler of BaseChat did: the trigger, the keys held, the
\* isStreaming it saw, and which callback props it called
Handled(trigger, shiftKey, isComposing, streaming, prevented, stopped, sent) ==
    [trigger |-> trigger, shiftKey |-> shiftKey, isComposing |-> isComposing,
     streaming |-> streaming, prevented |-> prevented, stopped |-> stopped, sent |-> sent]
NoEvent == Handled("none", FALSE, FALSE, FALSE, FALSE, FALSE, FALSE)

\* BaseChat with the defaults of its props, no callback given and no event yet
chatAtRest ==
    /\ isStreaming = FALSE
    /\ chatStarted = FALSE
    /\ input = ""
    /\ uploadedFiles = 0
    /\ callbacks = [sendMessage |-> FALSE, handleStop |-> FALSE, handleInputChange |-> FALSE]
    /\ recognition = FALSE
    /\ isListening = FALSE
    /\ transcript = ""
    /\ event = NoEvent

\* Page load: the stores hold their defaults, nothing is mounted, and the
\* cookie jar is whatever earlier sessions left (at most MaxPreset cookies,
\* beside a providers cookie that holds no JSON object).
Init ==
    /\ providersStore = initialProviderSettings
    /\ isDebugMode = defaults.isDebugMode
    /\ isEventLogsEnabled = defaults.isEventLogsEnabled
    /\ isLocalModelsEnabled = defaults.isLocalModelsEnabled
    /\ promptStore = defaults.promptStore
    /\ latestBranchStore = defaults.latestBranchStore
    /\ cookies \in [isDebugEnabled : BoolCookieTexts, isEventLogsEnabled : BoolCookieTexts,
                    isLocalModelsEnabled : BoolCookieTexts, promptId : PromptCookieTexts,
                    isLatestBranch : BoolCookieTexts, commitHash : CommitCookieTexts]
    /\ providersCookie \in ProvidersCookieTexts
    /\ Present(cookies, providersCookie) <= MaxPreset
    /\ mounted = FALSE
    /\ providers = initialProviderSettings
    /\ isLocalModel = defaults.isLocalModelsEnabled
    /\ activeProviders = <<>>
    /\ activeQueued = <<>>
    /\ storeChanged = FALSE
    /\ pendingEffects = {}
    /\ inHandler = FALSE
    /\ pendingChecks = 0
    /\ calls = 0
    /\ mounts = 0
    /\ last = Step("load", FALSE, Undefined, NoCfg)
    /\ userLatest = Undefined
    /\ chatAtRest

\* ------------------------------------------------- checkIsStableVersion
\* What the fetch of the stable tag's commit.json can come to: a rejection,
\* a failed status, a body that is no JSON, the body null, an object without
\* a commit, with the running build's commit, with another one.
Response(fetch, ok, body, commit) == [fetch |-> fetch, ok |-> ok, body |-> body, commit |-> commit]
Responses ==
    { Response("rejects", FALSE, "", Undefined),
      Response("resolves", FALSE, "object", RunningCommit),
      Response("resolves", TRUE, "<html>", Undefined),
      Response("resolves", TRUE, "null", Undefined),
      Response("resolves", TRUE, "object", Undefined),
      Response("resolves", TRUE, "object", RunningCommit),
      Response("resolves", TRUE, "object", OldCommit) }

Returned(v) == [threw |-> FALSE, value |-> v]
Thrown == [threw |-> TRUE, value |-> FALSE]

\* variant: the try block without the test of the status
tryCheckIsStable_noStatus(resp) ==
    IF resp.fetch = "rejects" THEN Thrown
    ELSE IF resp.body = "<html>" THEN Thrown
    ELSE IF resp.body = "null" THEN Thrown
    ELSE Returned(RunningCommit = resp.commit)

\* the try block: await fetch, the ok test, await json(), the comparison
tryCheckIsStable(resp) ==
    IF resp.fetch = "rejects" THEN Thrown
    ELSE IF ~resp.ok THEN Returned(FALSE)
    ELSE IF resp.body = "<html>" THEN Thrown          \* json() rejects
    ELSE IF resp.body = "null" THEN Thrown            \* null.commit
    ELSE Returned(RunningCommit = resp.commit)

\* the whole function: the catch block returns false
checkIsStableVersion(resp) ==
    IF tryCheckIsStable(resp).threw THEN Returned(FALSE) ELSE tryCheckIsStable(resp)

\* ------------------------------------------------------------ mount effect
\* variant: the record merged over the settings the entry holds
hydratedEntry_merged(snapshot, k, fields) ==
    LET held == IF Has(snapshot, k) THEN Get(snapshot, k).settings ELSE Settings(TRUE, Undefined)
    IN  [key |-> k,
         name |-> IF Has(snapshot, k) THEN Get(snapshot, k).name ELSE Undefined,
         settings |-> Settings(IF "enabled" \in DOMAIN fields THEN fields["enabled"] = "true" ELSE TRUE,
                               IF "baseUrl" \in DOMAIN fields THEN fields["baseUrl"] ELSE held.baseUrl)]

\* variant: a record without enabled leaves the flag the entry holds
hydratedEntry_heldEnabled(snapshot, k, fields) ==
    LET held == IF Has(snapshot, k) THEN Get(snapshot, k).settings ELSE Settings(TRUE, Undefined)
    IN  [key |-> k,
         name |-> IF Has(snapshot, k) THEN Get(snapshot, k).name ELSE Undefined,
         settings |-> Settings(IF "enabled" \in DOMAIN fields THEN fields["enabled"] = "true"
                               ELSE held.enabled,
                               IF "baseUrl" \in DOMAIN fields THEN fields["baseUrl"] ELSE Undefined)]

\* {...currentProvider, settings: {...parsed[k], enabled: parsed[k].enabled ?? true}}
hydratedEntry(snapshot, k, fields) ==
    [key |-> k,
     name |-> IF Has(snapshot, k) THEN Get(snapshot, k).name ELSE Undefined,
     settings |-> Settings(IF "enabled" \in DOMAIN fields THEN fields["enabled"] = "true" ELSE TRUE,
                           IF "baseUrl" \in DOMAIN fields THEN fields["baseUrl"] ELSE Undefined)]

\* Object.keys(parsedProviders).forEach(...), from member i on
RECURSIVE hydrateFrom(_, _, _, _)
hydrateFrom(store, snapshot, doc, i) ==
    IF i > Len(doc) THEN store
    ELSE hydrateFrom(setKey(store, doc[i].key, hydratedEntry(snapshot, doc[i].key, doc[i].fields)),
                     snapshot, doc, i + 1)

Left(store) == [threw |-> FALSE, store |-> store]
Aborted(store) == [threw |-> TRUE, store |-> store]

\* the try block of the providers part: JSON.parse, then the forEach
tryHydrateProviders(saved, store, snapshot) ==
    IF ParseThrows(saved) THEN Aborted(store)
    ELSE Left(hydrateFrom(store, snapshot, saved.doc, 1))

\* variant: the providers part without its catch block
hydrateProviders_uncaught(saved, store, snapshot) ==
    IF saved.text \in {Undefined, ""} THEN Left(store)
    ELSE tryHydrateProviders(saved, store, snapshot)

\* the providers part of the mount effect: the registry it leaves, and
\* whether an exception leaves the effect
hydrateProviders(saved, store, snapshot) ==
    IF saved.text \in {Undefined, ""} THEN Left(store)          \* if (savedProviders)
    ELSE IF tryHydrateProviders(saved, store, snapshot).threw
         THEN Left(store)                                       \* caught and logged
         ELSE tryHydrateProviders(saved, store, snapshot)

\* did the providers part call setKey at all
hydrationTouches(saved) == saved.text = "json" /\ Len(saved.doc) > 0

\* variant: the cookie's text taken for its truthiness
hydrateBool_truthy(saved, current) ==
    IF saved \in {Undefined, ""} THEN current ELSE TRUE

\* if (saved) { store.set(saved === 'true') }
hydrateBool(saved, current) ==
    IF saved \in {Undefined, ""} THEN current ELSE saved = "true"

\* if (promptId) { promptStore.set(promptId) }
hydratePrompt(saved, current) ==
    IF saved \in {Undefined, ""} THEN current ELSE saved

\* variant: an absent commitHash cookie counted as a mismatch
needsCheck_absentMismatch(jar) ==
    jar.isLatestBranch = Undefined \/ jar.commitHash # RunningCommit

\* savedLatestBranch === undefined || checkCommit !== commit.commit
needsCheck(jar) ==
    LET checkCommit == IF jar.commitHash = Undefined THEN RunningCommit ELSE jar.commitHash
    IN  jar.isLatestBranch = Undefined \/ checkCommit # RunningCommit

\* the else branch: latestBranchStore.set(savedLatestBranch === 'true')
hydrateLatestBranch(jar, current) ==
    IF needsCheck(jar) THEN current ELSE jar.isLatestBranch = "true"

\* ---------------------------------------------------- active providers
\* variant: the local-models preference not looked at
activeOf_unfiltered(snapshot, localModel) ==
    SelectSeq(snapshot, LAMBDA p : p.settings.enabled)

\* the active-provider effect's value
activeOf(snapshot, localModel) ==
    LET enabled == SelectSeq(snapshot, LAMBDA p : p.settings.enabled)
    IN  IF ~localModel
        THEN SelectSeq(enabled, LAMBDA p : p.name \notin LOCAL_PROVIDERS)
        ELSE enabled

\* ------------------------------------------------------------- lifecycle
\* First render of a new instance of the hook.
Mount ==
    /\ ~mounted
    /\ mounts < MaxMounts
    /\ mounted' = TRUE
    /\ providers' = providersStore
    /\ isLocalModel' = isLocalModelsEnabled
    /\ activeProviders' = <<>>
    /\ activeQueued' = <<>>
    /\ storeChanged' = FALSE
    /\ pendingEffects' = {"mount", "persist", "active"}
    /\ inHandler' = FALSE
    /\ mounts' = mounts + 1
    /\ last' = Step("mount", FALSE, Undefined, NoCfg)
    /\ UNCHANGED <<stores, cookies, providersCookie, pendingChecks, calls, userLatest>>
    /\ UNCHANGED chat

\* The passive effects of the last commit, in the order they are declared.
\* An exception thrown out of the mount effect ends that effect there.
RunEffects ==
    /\ mounted
    /\ pendingEffects # {}
    /\ LET first == "mount" \in pendingEffects
           hyd == IF first THEN hydrateProviders(providersCookie, providersStore, providers)
                  ELSE Left(providersStore)
           rest == first /\ ~hyd.threw
       IN  /\ providersStore' = hyd.store
           /\ storeChanged' = (storeChanged \/ (first /\ hydrationTouches(providersCookie)))
           /\ isDebugMode' = IF rest THEN hydrateBool(cookies.isDebugEnabled, isDebugMode)
                              ELSE isDebugMode
           /\ isEventLogsEnabled' = IF rest THEN hydrateBool(cookies.isEventLogsEnabled, isEventLogsEnabled)
                                     ELSE isEventLogsEnabled
           /\ isLocalModelsEnabled' = IF rest THEN hydrateBool(cookies.isLocalModelsEnabled, isLocalModelsEnabled)
                                       ELSE isLocalModelsEnabled
           /\ promptStore' = IF rest THEN hydratePrompt(cookies.promptId, promptStore) ELSE promptStore
           /\ latestBranchStore' = IF rest THEN hydrateLatestBranch(cookies, latestBranchStore)
                                    ELSE latestBranchStore
           /\ pendingChecks' = IF rest /\ needsCheck(cookies) THEN pendingChecks + 1 ELSE pendingChecks
           /\ providersCookie' = IF "persist" \in pendingEffects THEN JSONstringify(hyd.store)
                                  ELSE providersCookie
           /\ activeQueued' = IF "active" \in pendingEffects THEN activeOf(providers, isLocalModel)
                               ELSE activeQueued
           /\ last' = Step(IF first THEN "mountEffects" ELSE "effects",
                           rest /\ needsCheck(cookies),
                           IF first /\ hyd.threw THEN "threw" ELSE providersCookie.text,
                           IF first THEN providersCookie.doc ELSE NoCfg)
    /\ pendingEffects' = {}
    /\ UNCHANGED <<cookies, mounted, providers, isLocalModel, activeProviders, counters,
                   userLatest>>
    /\ UNCHANGED chat

\* is a re-render scheduled: a subscribed store or the state changed
rerenderDue ==
    \/ storeChanged
    \/ isLocalModelsEnabled # isLocalModel
    \/ activeQueued # activeProviders

\* A re-render: new snapshots, and the effects whose dependencies changed.
Render ==
    /\ mounted
    /\ pendingEffects = {}
    /\ rerenderDue
    /\ providers' = providersStore
    /\ isLocalModel' = isLocalModelsEnabled
    /\ activeProviders' = activeQueued
    /\ storeChanged' = FALSE
    /\ pendingEffects' = (IF storeChanged THEN {"persist", "active"} ELSE {})
                            \cup (IF isLocalModelsEnabled # isLocalModel THEN {"active"} ELSE {})
    /\ inHandler' = FALSE
    /\ last' = Step("render", FALSE, Undefined, NoCfg)
    /\ UNCHANGED <<stores, cookies, providersCookie, mounted, activeQueued, pendingChecks,
                   calls, mounts, userLatest>>
    /\ UNCHANGED chat

\* The component goes away, between events or in the batch of the handler
\* running; a re-render that handler's calls scheduled is dropped with it.
Unmount ==
    /\ mounted
    /\ pendingEffects = {}
    /\ inHandler \/ ~rerenderDue
    /\ mounted' = FALSE
    /\ inHandler' = FALSE
    /\ last' = Step("unmount", FALSE, Undefined, NoCfg)
    /\ UNCHANGED <<stores, cookies, providersCookie, providers, isLocalModel, activeProviders,
                   activeQueued, storeChanged, pendingEffects, pendingChecks, calls, mounts,
                   userLatest>>
    /\ UNCHANGED chat

\* The page is loaded anew: modules are evaluated again, the jar stays.
Reload ==
    /\ mounts < MaxMounts
    /\ mounts > 0
    /\ providersStore' = initialProviderSettings
    /\ isDebugMode' = defaults.isDebugMode
    /\ isEventLogsEnabled' = defaults.isEventLogsEnabled
    /\ isLocalModelsEnabled' = defaults.isLocalModelsEnabled
    /\ promptStore' = defaults.promptStore
    /\ latestBranchStore' = defaults.latestBranchStore
    /\ mounted' = FALSE
    /\ providers' = initialProviderSettings
    /\ isLocalModel' = defaults.isLocalModelsEnabled
    /\ activeProviders' = <<>>
    /\ activeQueued' = <<>>
    /\ storeChanged' = FALSE
    /\ pendingEffects' = {}
    /\ inHandler' = FALSE
    /\ pendingChecks' = 0
    /\ last' = Step("load", FALSE, Undefined, NoCfg)
    /\ UNCHANGED <<cookies, providersCookie, calls, mounts, userLatest>>
    /\ UNCHANGED chat

\* --------------------------------------------------- the freshness check
\* The fetch settles; the continuation given to then() runs if the promise
\* of checkIsStableVersion is fulfilled.
continuation(isStable, jar) ==
    LET shouldUseLatest == ~isStable
    IN  [store |-> shouldUseLatest,
         jar |-> [jar EXCEPT !.isLatestBranch = String(shouldUseLatest),
                             !.commitHash = RunningCommit]]

FetchSettle ==
    /\ pendingChecks > 0
    /\ \E resp \in Responses :
         LET r == checkIsStableVersion(resp)
         IN  /\ latestBranchStore' = IF r.threw THEN latestBranchStore
                                     ELSE continuation(r.value, cookies).store
             /\ cookies' = IF r.threw THEN cookies ELSE continuation(r.value, cookies).jar
             /\ last' = Step("settle", r.value, IF r.threw THEN "rejected" ELSE "fulfilled", resp)
    /\ pendingChecks' = pendingChecks - 1
    /\ UNCHANGED <<providersStore, isDebugMode, isEventLogsEnabled, isLocalModelsEnabled,
                   promptStore, providersCookie, hook, counters, userLatest>>
    /\ UNCHANGED chat

\* ---------------------------------------------------------------- setters
\* The callbacks of the last committed render, called from an event handler:
\* a handler runs once the renders and effects due have been flushed, and
\* the re-render its own calls schedule waits for it to return.
callable ==
    /\ mounted
    /\ pendingEffects = {}
    /\ inHandler \/ ~rerenderDue
    /\ calls < MaxCalls

Configs ==
    {[enabled |-> b] : b \in BOOLEAN}
        \cup {[baseUrl |-> u] : u \in Urls}

\* {...settings, ...config}
overlay(settings, config) ==
    Settings(IF "enabled" \in DOMAIN config THEN config["enabled"] ELSE settings.enabled,
             IF "baseUrl" \in DOMAIN config THEN config["baseUrl"] ELSE settings.baseUrl)

\* the value updateProviderSettings gives setKey; providers is the closure's
updatedEntry(closure, provider, config) ==
    [Get(closure, provider) EXCEPT !.settings = overlay(Get(closure, provider).settings, config)]

updateProviderSettings(provider, config) ==
    /\ callable
    /\ providersStore' = setKey(providersStore, provider, updatedEntry(providers, provider, config))
    /\ storeChanged' = TRUE
    /\ calls' = calls + 1
    /\ inHandler' = TRUE
    /\ last' = Step("updateProviderSettings", FALSE, provider, config)
    /\ UNCHANGED <<isDebugMode, isEventLogsEnabled, isLocalModelsEnabled, promptStore,
                   latestBranchStore, cookies, providersCookie, mounted, providers, isLocalModel,
                   activeProviders, activeQueued, pendingEffects, pendingChecks, mounts,
                   userLatest>>
    /\ UNCHANGED chat

enableDebugMode(enabled) ==
    /\ callable
    /\ isDebugMode' = enabled
    /\ cookies' = [cookies EXCEPT !.isDebugEnabled = String(enabled)]
    /\ calls' = calls + 1
    /\ inHandler' = TRUE
    /\ last' = Step("enableDebugMode", enabled, Undefined, NoCfg)
    /\ UNCHANGED <<providersStore, isEventLogsEnabled, isLocalModelsEnabled, promptStore,
                   latestBranchStore, providersCookie, hook, pendingChecks, mounts, userLatest>>
    /\ UNCHANGED chat

enableEventLogs(enabled) ==
    /\ callable
    /\ isEventLogsEnabled' = enabled
    /\ cookies' = [cookies EXCEPT !.isEventLogsEnabled = String(enabled)]
    /\ calls' = calls + 1
    /\ inHandler' = TRUE
    /\ last' = Step("enableEventLogs", enabled, Undefined, NoCfg)
    /\ UNCHANGED <<providersStore, isDebugMode, isLocalModelsEnabled, promptStore,
                   latestBranchStore, providersCookie, hook, pendingChecks, mounts, userLatest>>
    /\ UNCHANGED chat

enableLocalModels(enabled) ==
    /\ callable
    /\ isLocalModelsEnabled' = enabled
    /\ cookies' = [cookies EXCEPT !.isLocalModelsEnabled = String(enabled)]
    /\ calls' = calls + 1
    /\ inHandler' = TRUE
    /\ last' = Step("enableLocalModels", enabled, Undefined, NoCfg)
    /\ UNCHANGED <<providersStore, isDebugMode, isEventLogsEnabled, promptStore,
                   latestBranchStore, providersCookie, hook, pendingChecks, mounts, userLatest>>
    /\ UNCHANGED chat

PromptIds == {"p1"}

setPromptId(promptId) ==
    /\ callable
    /\ promptStore' = promptId
    /\ cookies' = [cookies EXCEPT !.promptId = promptId]
    /\ calls' = calls + 1
    /\ inHandler' = TRUE
    /\ last' = Step("setPromptId", FALSE, promptId, NoCfg)
    /\ UNCHANGED <<providersStore, isDebugMode, isEventLogsEnabled, isLocalModelsEnabled,
                   latestBranchStore, providersCookie, hook, pendingChecks, mounts, userLatest>>
    /\ UNCHANGED chat

enableLatestBranch(enabled) ==
    /\ callable
    /\ latestBranchStore' = enabled
    /\ cookies' = [cookies EXCEPT !.isLatestBranch = String(enabled)]
    /\ calls' = calls + 1
    /\ inHandler' = TRUE
    /\ last' = Step("enableLatestBranch", enabled, Undefined, NoCfg)
    /\ userLatest' = String(enabled)
    /\ UNCHANGED <<providersStore, isDebugMode, isEventLogsEnabled, isLocalModelsEnabled,
                   promptStore, providersCookie, hook, pendingChecks, mounts>>
    /\ UNCHANGED chat

UpdateProviderSettings ==
    \E provider \in Keys(providers), config \in Configs : updateProviderSettings(provider, config)
EnableDebugMode == \E enabled \in BOOLEAN : enableDebugMode(enabled)
EnableEventLogs == \E enabled \in BOOLEAN : enableEventLogs(enabled)
EnableLocalModels == \E enabled \in BOOLEAN : enableLocalModels(enabled)
SetPromptId == \E promptId \in PromptIds : setPromptId(promptId)
EnableLatestBranch == \E enabled \in BOOLEAN : enableLatestBranch(enabled)

Next ==
    \/ Mount
    \/ RunEffects
    \/ Render
    \/ Unmount
    \/ Reload
    \/ FetchSettle
    \/ UpdateProviderSettings
    \/ EnableDebugMode
    \/ EnableEventLogs
    \/ EnableLocalModels
    \/ SetPromptId
    \/ EnableLatestBranch

Spec == Init /\ [][Next]_vars

\* ------------------------------------------- hydration on any stores
\* The registries a mount can find: the default providers, each with any
\* settings.
Registries ==
    { [i \in 1..Len(PROVIDER_LIST) |->
          [key |-> PROVIDER_LIST[i], name |-> PROVIDER_LIST[i], settings |-> st[i]]] :
      st \in [1..Len(PROVIDER_LIST) -> [enabled : BOOLEAN, baseUrl : {Undefined} \cup Urls]] }

\* The hook mounts in a page whose stores earlier mounts and setter calls
\* have left at any values, on a jar that other sessions have written.
InitHydration ==
    /\ providersStore \in Registries
    /\ isDebugMode \in BOOLEAN
    /\ isEventLogsEnabled \in BOOLEAN
    /\ isLocalModelsEnabled \in BOOLEAN
    /\ promptStore = defaults.promptStore
    /\ latestBranchStore = defaults.latestBranchStore
    /\ cookies \in [isDebugEnabled : BoolCookieTexts, isEventLogsEnabled : BoolCookieTexts,
                    isLocalModelsEnabled : BoolCookieTexts, promptId : {Undefined},
                    isLatestBranch : {Undefined}, commitHash : {Undefined}]
    /\ providersCookie \in ProvidersCookieTexts
    /\ Present(cookies, providersCookie) <= MaxPreset
    /\ mounted = FALSE
    /\ providers = providersStore
    /\ isLocalModel = isLocalModelsEnabled
    /\ activeProviders = <<>>
    /\ activeQueued = <<>>
    /\ storeChanged = FALSE
    /\ pendingEffects = {}
    /\ inHandler = FALSE
    /\ pendingChecks = 0
    /\ calls = 0
    /\ mounts = 0
    /\ last = Step("load", FALSE, Undefined, NoCfg)
    /\ userLatest = Undefined
    /\ chatAtRest

NextHydration ==
    \/ Mount
    \/ RunEffects
    \/ Render

SpecHydration == InitHydration /\ [][NextHydration]_vars

\* ---------------------------------------------------------------- BaseChat
Inputs == {"", "hi"}
KeyNames == {"Enter", "a"}

\* what a handler goes on to: nothing, handleStop?.(), handleSendMessage?.()
Outcome(prevented, does) == [prevented |-> prevented, does |-> does]

\* variant: the test of the input method before the test of isStreaming
onKeyDown_composingFirst(key, shiftKey, isComposing) ==
    IF key # "Enter" THEN Outcome(FALSE, "nothing")
    ELSE IF shiftKey THEN Outcome(FALSE, "nothing")
    ELSE IF isComposing THEN Outcome(TRUE, "nothing")
    ELSE IF isStreaming THEN Outcome(TRUE, "stop")
    ELSE Outcome(TRUE, "send")

\* the textarea's onKeyDown
onKeyDown(key, shiftKey, isComposing) ==
    IF key # "Enter" THEN Outcome(FALSE, "nothing")
    ELSE IF shiftKey THEN Outcome(FALSE, "nothing")
    ELSE IF isStreaming THEN Outcome(TRUE, "stop")
    ELSE IF isComposing THEN Outcome(TRUE, "nothing")
    ELSE Outcome(TRUE, "send")

\* the SendButton's onClick
sendButtonOnClick ==
    IF isStreaming THEN Outcome(FALSE, "stop")
    ELSE IF input # "" \/ uploadedFiles > 0 THEN Outcome(FALSE, "send")
    ELSE Outcome(FALSE, "nothing")

\* the callback given to ExamplePrompts
examplePromptCallback ==
    IF isStreaming THEN Outcome(FALSE, "stop") ELSE Outcome(FALSE, "send")

\* A handler runs to its end: handleStop?.() calls the prop if it is given;
\* handleSendMessage calls sendMessage if it is given and then, with a
\* recognition, stops listening, clears the transcript and has the input
\* cleared through handleInputChange.
Handle(trigger, shiftKey, isComposing, out) ==
    LET stops == out.does = "stop" /\ callbacks.handleStop
        sends == out.does = "send" /\ callbacks.sendMessage
    IN  /\ event' = Handled(trigger, shiftKey, isComposing, isStreaming, out.prevented, stops, sends)
        /\ isListening' = IF sends /\ recognition THEN FALSE ELSE isListening
        /\ transcript' = IF sends /\ recognition THEN "" ELSE transcript
        /\ input' = IF sends /\ recognition /\ callbacks.handleInputChange THEN "" ELSE input
        /\ UNCHANGED <<isStreaming, chatStarted, uploadedFiles, callbacks, recognition, useSettings>>

KeyDown ==
    \E key \in KeyNames, shiftKey \in BOOLEAN, isComposing \in BOOLEAN :
        Handle(key, shiftKey, isComposing, onKeyDown(key, shiftKey, isComposing))

SendButtonClick == Handle("sendButton", FALSE, FALSE, sendButtonOnClick)

ExamplePromptClick ==
    /\ ~chatStarted
    /\ Handle("examplePrompt", FALSE, FALSE, examplePromptCallback)

\* The parent renders BaseChat again, with whatever props it now has.
Props ==
    /\ isStreaming' \in BOOLEAN
    /\ chatStarted' \in BOOLEAN
    /\ input' \in Inputs
    /\ uploadedFiles' \in 0..MaxFiles
    /\ UNCHANGED <<callbacks, recognition, isListening, transcript, event, useSettings>>

startListening ==
    /\ recognition
    /\ isListening' = TRUE
    /\ UNCHANGED <<isStreaming, chatStarted, input, uploadedFiles, callbacks, recognition,
                   transcript, event, useSettings>>

stopListening ==
    /\ recognition
    /\ isListening' = FALSE
    /\ UNCHANGED <<isStreaming, chatStarted, input, uploadedFiles, callbacks, recognition,
                   transcript, event, useSettings>>

\* recognition.onresult
onresult ==
    /\ recognition
    /\ isListening
    /\ transcript' = "hi"
    /\ input' = IF callbacks.handleInputChange THEN "hi" ELSE input
    /\ UNCHANGED <<isStreaming, chatStarted, uploadedFiles, callbacks, recognition,
                   isListening, event, useSettings>>

\* BaseChat once its mount effect has run, in a page where the hook is not
\* mounted: the props at their defaults, any of the callbacks given.
InitChat ==
    /\ providersStore = initialProviderSettings
    /\ isDebugMode = defaults.isDebugMode
    /\ isEventLogsEnabled = defaults.isEventLogsEnabled
    /\ isLocalModelsEnabled = defaults.isLocalModelsEnabled
    /\ promptStore = defaults.promptStore
    /\ latestBranchStore = defaults.latestBranchStore
    /\ cookies = [k \in CookieKeys |-> Undefined]
    /\ providersCookie = NoProvidersCookie
    /\ mounted = FALSE
    /\ providers = initialProviderSettings
    /\ isLocalModel = defaults.isLocalModelsEnabled
    /\ activeProviders = <<>>
    /\ activeQueued = <<>>
    /\ storeChanged = FALSE
    /\ pendingEffects = {}
    /\ inHandler = FALSE
    /\ pendingChecks = 0
    /\ calls = 0
    /\ mounts = 0
    /\ last = Step("load", FALSE, Undefined, NoCfg)
    /\ userLatest = Undefined
    /\ isStreaming = FALSE
    /\ chatStarted = FALSE
    /\ input = ""
    /\ uploadedFiles = 0
    /\ callbacks \in [sendMessage : BOOLEAN, handleStop : BOOLEAN, handleInputChange : BOOLEAN]
    /\ recognition \in BOOLEAN
    /\ isListening = FALSE
    /\ transcript = ""
    /\ event = NoEvent

NextChat ==
    \/ KeyDown
    \/ SendButtonClick
    \/ ExamplePromptClick
    \/ Props
    \/ startListening
    \/ stopListening
    \/ onresult

SpecChat == InitChat /\ [][NextChat]_vars

\* ------------------------------------------------------------ properties
\* the commitHash cookie does not disagree with the running build
commitAgrees(jar) == jar.commitHash \in {Undefined, RunningCommit}

\* C1: once enableLatestBranch(v) has been called and the commitHash cookie
\* does not disagree with the running build, every later step of the hook
\* that is not a new call of the setter leaves latestBranchStore and the
\* isLatestBranch cookie at v; a fetch settling late does not replace v.
C1_UserValueKept ==
    [][(/\ userLatest # Undefined
        /\ userLatest' = userLatest
        /\ last'.op # "load"
        /\ commitAgrees(cookies)
        /\ latestBranchStore = (userLatest = "true")
        /\ cookies.isLatestBranch = userLatest)
       => (/\ latestBranchStore' = latestBranchStore
           /\ cookies'.isLatestBranch = cookies.isLatestBranch)]_vars

\* C2: what a render returns never pairs a local provider in activeProviders
\* with a local-models preference that is false.
C2_NoLocalUnlessEnabled ==
    mounted =>
        \A i \in DOMAIN activeProviders :
            activeProviders[i].name \in LOCAL_PROVIDERS => isLocalModel

\* C3: the mount effect starts the freshness check exactly when the
\* isLatestBranch cookie is absent or the commitHash cookie is present and
\* differs from the running commit; when it does not, it sets the preference
\* to (isLatestBranch cookie = "true"), starts no fetch and writes no cookie;
\* a check that settles leaves the preference at the negation of its result,
\* the isLatestBranch cookie at that value as text and the commitHash cookie
\* at the running commit.
C3_FreshnessGate ==
    [][/\ last'.op = "mountEffects" =>
            LET runs == \/ cookies.isLatestBranch = Undefined
                        \/ (cookies.commitHash # Undefined /\ cookies.commitHash # RunningCommit)
            IN  /\ (pendingChecks' = pendingChecks + 1) <=> runs
                /\ pendingChecks' \in {pendingChecks, pendingChecks + 1}
                /\ cookies' = cookies
                /\ ~runs => latestBranchStore' = (cookies.isLatestBranch = "true")
       /\ last'.op = "settle" =>
            /\ last'.name = "fulfilled"
            /\ pendingChecks' = pendingChecks - 1
            /\ latestBranchStore' = ~last'.b
            /\ cookies'.isLatestBranch = String(~last'.b)
            /\ cookies'.commitHash = RunningCommit]_vars

\* C3 witness: a check has settled on "not stable" and the store holds true
C3_Witness ==
    /\ last.op = "settle"
    /\ last.name = "fulfilled"
    /\ ~last.b
    /\ latestBranchStore
    /\ cookies.isLatestBranch = "true"

\* the member of a persisted object stored under k
memberOf(doc, k) == doc[CHOOSE m \in DOMAIN doc : doc[m].key = k]
names(doc) == {doc[m].key : m \in DOMAIN doc}

\* C4 (as claimed): hydration merges each named record over the entry's
\* settings: a field the record mentions takes the record's value, a field it
\* does not mention keeps its value from before, and the entries of providers
\* the payload does not name are unchanged.
C4_ShallowMerge ==
    [][(last'.op = "mountEffects" /\ providersCookie.text = "json") =>
        \A i \in DOMAIN providersStore :
            LET before == providersStore[i]
                after == providersStore'[i]
                doc == providersCookie.doc
            IN  IF before.key \in names(doc)
                THEN LET fields == memberOf(doc, before.key).fields
                     IN  /\ "enabled" \in DOMAIN fields =>
                                after.settings.enabled = (fields["enabled"] = "true")
                         /\ "baseUrl" \in DOMAIN fields =>
                                after.settings.baseUrl = fields["baseUrl"]
                         /\ "enabled" \notin DOMAIN fields =>
                                after.settings.enabled = before.settings.enabled
                         /\ "baseUrl" \notin DOMAIN fields =>
                                after.settings.baseUrl = before.settings.baseUrl
                ELSE after = before]_vars

\* C4 (amended): hydration replaces the settings of each named provider that
\* has an entry by the payload's record, enabled defaulted to true: a field
\* the record does not mention is dropped; the entry keeps its name, and the
\* entries of providers the payload does not name are unchanged.
C4_SettingsReplaced ==
    [][(last'.op = "mountEffects" /\ providersCookie.text = "json") =>
        \A i \in DOMAIN providersStore :
            LET before == providersStore[i]
                after == providersStore'[i]
                doc == providersCookie.doc
            IN  IF before.key \in names(doc)
                THEN LET fields == memberOf(doc, before.key).fields
                     IN  /\ after.key = before.key
                         /\ after.name = before.name
                         /\ after.settings.enabled =
                                ("enabled" \in DOMAIN fields => fields["enabled"] = "true")
                         /\ after.settings.baseUrl =
                                (IF "baseUrl" \in DOMAIN fields THEN fields["baseUrl"] ELSE Undefined)
                ELSE after = before]_vars

\* C4 witness: the mount effect has just hydrated a registry in which a
\* provider had a baseUrl that the persisted record does not mention
C4_Witness ==
    /\ last.op = "mountEffects"
    /\ \E i \in DOMAIN providers :
         /\ providers[i].settings.baseUrl # Undefined
         /\ providersStore[i].settings.baseUrl = Undefined

\* C5: hydration creates no entry for a name the registry does not hold: the
\* key set is the same before and after, and no such name comes to be in
\* activeProviders.
C5_UnknownIgnored ==
    [][/\ last'.op = "mountEffects" => Keys(providersStore') = Keys(providersStore)
       /\ \A i \in DOMAIN activeProviders' :
            activeProviders'[i].key \in Keys(initialProviderSettings)]_vars

\* C6: updateProviderSettings(name, partial) leaves name's settings equal to
\* the settings the registry held for name just before the call overlaid
\* with partial, and every other entry unchanged.
C6_UpdateMergesCurrent ==
    [][last'.op = "updateProviderSettings" =>
        \A i \in DOMAIN providersStore :
            LET before == providersStore[i]
                after == providersStore'[i]
                partial == last'.cfg
            IN  IF before.key = last'.name
                THEN \A f \in FieldNames :
                        after.settings[f] = IF f \in DOMAIN partial THEN partial[f]
                                            ELSE before.settings[f]
                ELSE after = before]_vars

\* every effect and render due has run
settled == mounted /\ pendingEffects = {} /\ ~rerenderDue

\* C7: once the effects have run, the providers cookie is the JSON text of
\* the object that maps every name of the registry, in order, to that
\* provider's settings and to nothing else of the entry.
C7_CookieIsSettings ==
    settled =>
        /\ providersCookie.text = "json"
        /\ Len(providersCookie.doc) = Len(providersStore)
        /\ \A i \in DOMAIN providersStore :
             LET member == providersCookie.doc[i]
                 settings == providersStore[i].settings
             IN  /\ member.key = providersStore[i].key
                 /\ DOMAIN member.fields \subseteq FieldNames
                 /\ "enabled" \in DOMAIN member.fields
                 /\ member.fields["enabled"] = String(settings.enabled)
                 /\ ("baseUrl" \in DOMAIN member.fields) <=> (settings.baseUrl # Undefined)
                 /\ "baseUrl" \in DOMAIN member.fields =>
                        member.fields["baseUrl"] = settings.baseUrl

\* C7 witness: the effects have run after setter calls, on a registry whose
\* first provider is disabled and has a baseUrl
C7_Witness ==
    /\ settled
    /\ calls > 0
    /\ \E i \in DOMAIN providersStore :
         /\ providersStore[i].settings.baseUrl # Undefined
         /\ initialProviderSettings[1].key = providersStore[i].key
         /\ ~providersStore[i].settings.enabled

\* what a setter's cookie holds, read back as the mount effect reads it
saysBoolean(text) == text \in {"true", "false"}

\* C8 (as claimed): each of the four setters leaves String(b) in its cookie,
\* and a mount effect that finds "true" or "false" in a preference's cookie
\* leaves the in-memory preference at that value.
C8_RoundTripAll ==
    /\ last.op = "enableDebugMode" => cookies.isDebugEnabled = String(last.b)
    /\ last.op = "enableEventLogs" => cookies.isEventLogsEnabled = String(last.b)
    /\ last.op = "enableLocalModels" => cookies.isLocalModelsEnabled = String(last.b)
    /\ last.op = "enableLatestBranch" => cookies.isLatestBranch = String(last.b)
    /\ last.op = "mountEffects" =>
        /\ saysBoolean(cookies.isDebugEnabled) => isDebugMode = (cookies.isDebugEnabled = "true")
        /\ saysBoolean(cookies.isEventLogsEnabled) =>
                isEventLogsEnabled = (cookies.isEventLogsEnabled = "true")
        /\ saysBoolean(cookies.isLocalModelsEnabled) =>
                isLocalModelsEnabled = (cookies.isLocalModelsEnabled = "true")
        /\ saysBoolean(cookies.isLatestBranch) =>
                latestBranchStore = (cookies.isLatestBranch = "true")

\* C8 (amended): the same, the use-latest-branch preference being read back
\* only when the commitHash cookie is absent or equals the running commit.
C8_RoundTrip ==
    /\ last.op = "enableDebugMode" => cookies.isDebugEnabled = String(last.b)
    /\ last.op = "enableEventLogs" => cookies.isEventLogsEnabled = String(last.b)
    /\ last.op = "enableLocalModels" => cookies.isLocalModelsEnabled = String(last.b)
    /\ last.op = "enableLatestBranch" => cookies.isLatestBranch = String(last.b)
    /\ last.op = "mountEffects" =>
        /\ saysBoolean(cookies.isDebugEnabled) => isDebugMode = (cookies.isDebugEnabled = "true")
        /\ saysBoolean(cookies.isEventLogsEnabled) =>
                isEventLogsEnabled = (cookies.isEventLogsEnabled = "true")
        /\ saysBoolean(cookies.isLocalModelsEnabled) =>
                isLocalModelsEnabled = (cookies.isLocalModelsEnabled = "true")
        /\ (saysBoolean(cookies.isLatestBranch) /\ commitAgrees(cookies)) =>
                latestBranchStore = (cookies.isLatestBranch = "true")

\* C8 witness: enableLatestBranch(true) was called, and a later mount has
\* read the cookie back
C8_Witness ==
    /\ last.op = "mountEffects"
    /\ mounts = MaxMounts
    /\ userLatest = "true"
    /\ cookies.isLatestBranch = "true"
    /\ commitAgrees(cookies)
    /\ latestBranchStore

\* C9: with a providers cookie that is no JSON, the mount effect throws
\* nothing, leaves the registry as it was, and goes on to the debug,
\* event-log, local-model, prompt-id and latest-branch steps.
C9_MalformedProviders ==
    [][(last'.op = "mountEffects" /\ providersCookie.text = "{bad") =>
        /\ last'.name # "threw"
        /\ providersStore' = providersStore
        /\ saysBoolean(cookies.isDebugEnabled) => isDebugMode' = (cookies.isDebugEnabled = "true")
        /\ saysBoolean(cookies.isEventLogsEnabled) =>
                isEventLogsEnabled' = (cookies.isEventLogsEnabled = "true")
        /\ saysBoolean(cookies.isLocalModelsEnabled) =>
                isLocalModelsEnabled' = (cookies.isLocalModelsEnabled = "true")
        /\ cookies.promptId \notin {Undefined, ""} => promptStore' = cookies.promptId
        /\ IF cookies.isLatestBranch = Undefined \/ ~commitAgrees(cookies)
           THEN pendingChecks' = pendingChecks + 1
           ELSE latestBranchStore' = (cookies.isLatestBranch = "true")]_vars

\* C9 witness: the mount effect met a malformed providers cookie, read the
\* debug cookie and started the freshness check
C9_Witness ==
    /\ last.op = "mountEffects"
    /\ last.name = "{bad"
    /\ providersStore = initialProviderSettings
    /\ isDebugMode
    /\ pendingChecks = 1

\* C10: checkIsStableVersion always fulfils, with true exactly when the
\* fetch resolved, the status was a success, the body parsed to an object
\* and its commit is the running build's.
C10_StableIff ==
    last.op = "settle" =>
        /\ last.name = "fulfilled"
        /\ last.b <=> (/\ last.cfg.fetch = "resolves"
                        /\ last.cfg.ok
                        /\ last.cfg.body = "object"
                        /\ last.cfg.commit = RunningCommit)

\* C10 witness: a check settled on a failed status although the body
\* carried the running commit
C10_Witness ==
    /\ last.op = "settle"
    /\ ~last.b
    /\ ~last.cfg.ok
    /\ last.cfg.commit = RunningCommit

\* C11: the mount effect leaves every provider the persisted object names
\* with an entry whose settings.enabled is true when the provider's record
\* has no enabled field, whatever the flag was in memory, and is false
\* exactly when the record carries enabled = false.
C11_EnabledDefault ==
    [][(last'.op = "mountEffects" /\ providersCookie.text = "json") =>
        \A m \in DOMAIN providersCookie.doc :
            LET k == providersCookie.doc[m].key
                fields == providersCookie.doc[m].fields
            IN  /\ Has(providersStore', k)
                /\ "enabled" \notin DOMAIN fields => Get(providersStore', k).settings.enabled
                /\ ~Get(providersStore', k).settings.enabled
                      <=> ("enabled" \in DOMAIN fields /\ fields["enabled"] = "false")]_vars

\* C11 witness: the mount effect has hydrated a provider that was disabled
\* in memory from a record without enabled, and the provider is enabled
C11_Witness ==
    /\ last.op = "mountEffects"
    /\ last.name = "json"
    /\ \E m \in DOMAIN last.cfg :
         /\ "enabled" \notin DOMAIN last.cfg[m].fields
         /\ Has(providers, last.cfg[m].key)
         /\ ~Get(providers, last.cfg[m].key).settings.enabled
         /\ Get(providersStore, last.cfg[m].key).settings.enabled

\* the places of the registry whose entries are to be active
activePlaces(reg, localModels) ==
    {i \in DOMAIN reg :
        /\ reg[i].settings.enabled
        /\ localModels \/ reg[i].name \notin LOCAL_PROVIDERS}

\* seq is the entries of reg at the places in S, in the order of reg
listsPlaces(seq, reg, S) ==
    /\ Len(seq) = Cardinality(S)
    /\ \A j \in DOMAIN seq :
         \E i \in S : /\ Cardinality({h \in S : h < i}) = j - 1
                      /\ seq[j] = reg[i]

\* C12: once the effects have run, activeProviders is the registry's entries
\* with settings.enabled true, in the registry's order, those named in
\* LOCAL_PROVIDERS left out when the local-models preference is false; and
\* the render that follows a change of only that preference from false to
\* true returns the list it returned before with exactly the enabled local
\* providers added.
C12_ActiveExact ==
    /\ [](settled => listsPlaces(activeProviders, providersStore,
                                 activePlaces(providersStore, isLocalModelsEnabled)))
    /\ [][(/\ last'.op = "render"
            /\ settled'
            /\ isLocalModelsEnabled
            /\ providersStore' = providersStore
            /\ listsPlaces(activeProviders, providersStore, activePlaces(providersStore, FALSE)))
           => (/\ \A j \in DOMAIN activeProviders :
                    \E h \in DOMAIN activeProviders' : activeProviders'[h] = activeProviders[j]
               /\ \A h \in DOMAIN activeProviders' :
                    \/ \E j \in DOMAIN activeProviders : activeProviders[j] = activeProviders'[h]
                    \/ /\ activeProviders'[h].name \in LOCAL_PROVIDERS
                       /\ activeProviders'[h].settings.enabled
               /\ \A i \in DOMAIN providersStore :
                    (providersStore[i].name \in LOCAL_PROVIDERS /\ providersStore[i].settings.enabled)
                        => \E h \in DOMAIN activeProviders' : activeProviders'[h] = providersStore[i])]_vars

\* C12 witness: the preference has gone from false to true on a registry
\* with a disabled provider and an enabled local one, and the render after
\* the effect has returned the local provider
C12_Witness ==
    /\ settled
    /\ last.op = "render"
    /\ calls > 0
    /\ isLocalModelsEnabled
    /\ cookies.isLocalModelsEnabled = "true"
    /\ \E i \in DOMAIN providersStore : ~providersStore[i].settings.enabled
    /\ \E h \in DOMAIN activeProviders : activeProviders[h].name \in LOCAL_PROVIDERS

\* what the claimed hydration makes of a preference: kept when the cookie is
\* absent, else true exactly for the text "true"
readBack(saved, current) == IF saved = Undefined THEN current ELSE saved = "true"

\* C13: the mount effect leaves each of debug mode, event logs and local
\* models unchanged when its cookie is absent, and at (cookie = "true") when
\* the cookie is present with any text, the empty text included; and it
\* writes none of the three cookies.
C13_BoolHydration ==
    [][last'.op = "mountEffects" =>
        /\ isDebugMode' = readBack(cookies.isDebugEnabled, isDebugMode)
        /\ isEventLogsEnabled' = readBack(cookies.isEventLogsEnabled, isEventLogsEnabled)
        /\ isLocalModelsEnabled' = readBack(cookies.isLocalModelsEnabled, isLocalModelsEnabled)
        /\ cookies'.isDebugEnabled = cookies.isDebugEnabled
        /\ cookies'.isEventLogsEnabled = cookies.isEventLogsEnabled
        /\ cookies'.isLocalModelsEnabled = cookies.isLocalModelsEnabled]_vars

\* C14: when the fetch of the freshness check settles after the hook has
\* been unmounted, the continuation leaves latestBranchStore at the value it
\* held at the unmount.
C14_InertAfterUnmount ==
    [][(~mounted /\ last'.op = "settle") => latestBranchStore' = latestBranchStore]_vars

\* the three send triggers, as the handler met them
sendTrigger(e) ==
    \/ e.trigger = "Enter" /\ ~e.shiftKey
    \/ e.trigger = "sendButton"
    \/ e.trigger = "examplePrompt"

\* C15: a send trigger handled while isStreaming is true (Enter without
\* Shift, a click on the send button, a click on an example prompt) does not
\* call sendMessage and calls handleStop, the handleStop prop being given,
\* also during an input-method composition; Shift+Enter calls neither
\* sendMessage nor handleStop in any state.
C15_NoSendWhileStreaming ==
    /\ (sendTrigger(event) /\ event.streaming) =>
            /\ ~event.sent
            /\ callbacks.handleStop => event.stopped
    /\ (event.trigger = "Enter" /\ event.shiftKey) =>
            /\ ~event.sent
            /\ ~event.stopped

\* C15 witness: Enter without Shift was pressed during a composition while
\* streaming, with both callbacks given: handleStop was called, sendMessage
\* was not
C15_Witness ==
    /\ event.trigger = "Enter"
    /\ ~event.shiftKey
    /\ event.isComposing
    /\ event.streaming
    /\ callbacks.sendMessage
    /\ callbacks.handleStop
    /\ event.stopped
    /\ ~event.sent

====
